---- MODULE Spec2Model ----
(***************************************************************************)
(* Chirpy: HTTP handlers over a users/chirps database and one atomic hit   *)
(* counter.  Each in-flight request is a slot of req; a handler is one or  *)
(* two atomic steps, split where it touches shared state (the counter, a   *)
(* single SQL statement).                                                  *)
(*                                                                         *)
(* The sources hold two servers: main.go, with the counter and its         *)
(* metrics, reset and health routes only, and the Go program that follows  *)
(* the queries in sql/queries/users.sql, with the database, the PLATFORM   *)
(* flag and the user and chirp routes.  program says which one runs.       *)
(*                                                                         *)
(* Strings are sequences of characters.  A character is a one-letter       *)
(* string, except KELVIN (U+212A, three bytes in UTF-8), which Go's        *)
(* strings.ToLower maps to "k".                                            *)
(***************************************************************************)
EXTENDS Integers, Sequences, FiniteSets

VARIABLES program, env, platform, fileserverHits, users, chirps, req

vars == <<program, env, platform, fileserverHits, users, chirps, req>>

----------------------------------------------------------------------------
\* Bounds of the model.

\* Request slots of the server specification (requests ever received).
MaxReqs == 3

\* Pieces concatenated to build a chirp body in the chirp specification.
MaxPieces == 3

----------------------------------------------------------------------------
\* Strings

KELVIN == "KELVIN"

UpperCase == <<"A","B","C","D","E","F","G","H","I","J","K","L","M",
               "N","O","P","Q","R","S","T","U","V","W","X","Y","Z">>

LowerCase == <<"a","b","c","d","e","f","g","h","i","j","k","l","m",
               "n","o","p","q","r","s","t","u","v","w","x","y","z">>

\* UTF-8 width of a character.
Width(c) == IF c = KELVIN THEN 3 ELSE 1

\* Go's len(s) on a string: its length in bytes.
ByteLen(s) ==
    Len(s) + (Width(KELVIN) - 1) * Cardinality({i \in 1..Len(s) : s[i] = KELVIN})

\* unicode.ToLower on one character.
LowerChar(c) ==
    IF c = KELVIN THEN "k"
    ELSE IF \E i \in 1..Len(UpperCase) : UpperCase[i] = c
         THEN LowerCase[CHOOSE i \in 1..Len(UpperCase) : UpperCase[i] = c]
         ELSE c

\* A plausible slip: no lower-casing before the comparison.
ToLowerIdentity(s) == s

\* strings.ToLower
ToLower(s) == [i \in 1..Len(s) |-> LowerChar(s[i])]

\* strings.Index(s, " "): the first space of s, 0 when it has none.
IndexSpace(s) ==
    LET at == {i \in 1..Len(s) : s[i] = " "}
    IN IF at = {} THEN 0 ELSE CHOOSE i \in at : \A j \in at : i <= j

RECURSIVE SplitOn(_)
\* genSplit: cut at each separator in turn, the rest being the last token.
SplitOn(s) ==
    IF IndexSpace(s) = 0 THEN <<s>>
    ELSE <<SubSeq(s, 1, IndexSpace(s) - 1)>>
         \o SplitOn(SubSeq(s, IndexSpace(s) + 1, Len(s)))

\* A plausible slip: strings.Fields, which drops the empty tokens.
SplitFields(s) == SelectSeq(SplitOn(s), LAMBDA w : w # <<>>)

\* strings.Split(s, " ")
Split(s) == SplitOn(s)

RECURSIVE Join(_)
\* strings.Join(ws, " ")
Join(ws) ==
    IF ws = <<>> THEN <<>>
    ELSE IF Len(ws) = 1 THEN ws[1]
    ELSE ws[1] \o <<" ">> \o Join(Tail(ws))

kerfuffle == <<"k","e","r","f","u","f","f","l","e">>
sharbert == <<"s","h","a","r","b","e","r","t">>
fornax == <<"f","o","r","n","a","x">>

profaneWords == <<kerfuffle, sharbert, fornax>>

\* A plausible slip: a mask longer than the shortest denylisted word.
LongMask == <<"[","r","e","d","a","c","t","e","d","]">>

Mask == <<"*","*","*","*">>

MaxChirpLen == 140

\* The length check of createChirpHandler.
TooLong(body) == ByteLen(body) > MaxChirpLen

\* The inner loop: is the lower-cased word one of profaneWords.
IsProfane(word) ==
    \E k \in 1..Len(profaneWords) : ToLower(word) = profaneWords[k]

\* The cleaning loop over the split words.
CleanWords(words) ==
    [i \in 1..Len(words) |-> IF IsProfane(words[i]) THEN Mask ELSE words[i]]

\* cleanedChirp
Clean(body) == Join(CleanWords(Split(body)))

----------------------------------------------------------------------------
\* Requests

Methods == {"GET", "POST"}

\* PLATFORM as found in the environment; "" is unset.
Envs == {"", "dev", "staging"}

Emails == {"a@x", "b@x"}

NoResp == [id |-> 0, email |-> "", body |-> <<>>, user_id |-> 0,
           hits |-> 0, error |-> ""]

Idle == [kind |-> "none", method |-> "GET", payload |-> "none", email |-> "",
         body |-> <<>>, user_id |-> 0, pc |-> "idle", status |-> 0,
         resp |-> NoResp]

\* A request as it arrives.  payload is what reading and parsing the body
\* will give: "unreadable" (io.ReadAll fails), "malformed" (json.Unmarshal
\* fails) or "ok" (the fields email, or body and user_id, are the parsed ones).
Arrive(kind, method, payload, email, body, user_id) ==
    [Idle EXCEPT !.kind = kind, !.method = method, !.payload = payload,
                 !.email = email, !.body = body, !.user_id = user_id]

Slots == 1..MaxReqs

Pad(n) == [i \in 1..n |-> "a"]

HiFornax == <<"h","i"," ","F","o","r","n","a","x">>

\* One byte over the limit, and within it once "kerfuffle" is masked.
OverLong == kerfuffle \o <<" ">> \o Pad(MaxChirpLen - Len(kerfuffle))

UserIDs == {1, 2}

UserRequests(emails) ==
    { Arrive("user", "GET", "none", "", <<>>, 0),
      Arrive("user", "POST", "unreadable", "", <<>>, 0),
      Arrive("user", "POST", "malformed", "", <<>>, 0) }
    \cup { Arrive("user", "POST", "ok", e, <<>>, 0) : e \in emails }

ChirpRequests(bodies) ==
    { Arrive("chirp", "GET", "none", "", <<>>, 0),
      Arrive("chirp", "POST", "unreadable", "", <<>>, 0),
      Arrive("chirp", "POST", "malformed", "", <<>>, 0) }
    \cup { Arrive("chirp", "POST", "ok", "", b, u) : b \in bodies, u \in UserIDs }

\* The requests that reach the shared state: the counter and the tables.
\* The static-file route is asked with GET; its middleware reads no method.
SharingRequests ==
    { Arrive("file", "GET", "none", "", <<>>, 0),
      Arrive("metrics", "GET", "none", "", <<>>, 0),
      Arrive("healthz", "GET", "none", "", <<>>, 0),
      Arrive("reset", "POST", "none", "", <<>>, 0),
      Arrive("chirp", "POST", "ok", "", HiFornax, 1) }
    \cup { Arrive("user", "POST", "ok", e, <<>>, 0) : e \in Emails }

\* Those and the ones a handler turns down before it reaches any.
SeqRequests ==
    SharingRequests
    \cup { Arrive(k, "POST", "none", "", <<>>, 0) : k \in {"metrics", "healthz"} }
    \cup { Arrive("reset", "GET", "none", "", <<>>, 0) }
    \cup UserRequests({"a@x"})

----------------------------------------------------------------------------
\* The counter: sync/atomic.Int32

MaxInt32 == 2147483647

MinInt32 == -MaxInt32 - 1

\* A plausible slip: Store where Add was meant.
AddAsStore(v, delta) == delta

\* fileserverHits.Add(delta), delta >= 0: two's-complement wrap-around.
Add(v, delta) ==
    IF v > MaxInt32 - delta
    THEN MinInt32 + (delta - 1 - (MaxInt32 - v))
    ELSE v + delta

\* A plausible slip: the counter is left as it is.
StoreNothing(v, new) == v

\* fileserverHits.Store(new)
Store(v, new) == new

\* fileserverHits.Load()
Load(v) == v

----------------------------------------------------------------------------
\* Start-up

\* main: PLATFORM, "prod" when unset.
LoadPlatform(e) == IF e = "" THEN "prod" ELSE e

\* resetHandler's gate.
IsDev(pf) == pf = "dev"

MainGo == "main.go"

UsersSql == "sql/queries/users.sql"

Programs == {MainGo, UsersSql}

\* The handlers each main registers on its mux.
Routes(prog) ==
    IF prog = MainGo
    THEN {"file", "metrics", "healthz", "reset"}
    ELSE {"file", "metrics", "healthz", "reset", "user", "chirp"}

\* main.go reads no PLATFORM and its apiConfig has no platform field.
Init ==
    /\ program \in Programs
    /\ env \in Envs
    /\ platform = IF program = UsersSql THEN LoadPlatform(env) ELSE ""
    /\ fileserverHits = 0
    /\ users = {}
    /\ chirps = {}
    /\ req = [p \in Slots |-> Idle]

\* The handler of slot p, serving r, ends with this status and response.
Respond(p, r, status, resp) ==
    req' = [req EXCEPT ![p] = [r EXCEPT !.pc = "done", !.status = status,
                                        !.resp = resp]]

\* The handler of slot p, serving r, goes on to its step pc.
Goto(p, r, pc) == req' = [req EXCEPT ![p] = [r EXCEPT !.pc = pc]]

ErrorResp(msg) == [NoResp EXCEPT !.error = msg]

\* The slot the next request takes.
Free(p) == req[p].pc = "idle" /\ \A q \in Slots : q < p => req[q].pc # "idle"

InFlight == {p \in Slots : req[p].pc \notin {"idle", "done"}}

----------------------------------------------------------------------------
\* Static files: mux.Handle("/app/", middlewareMetricsInc(StripPrefix(FileServer)))

\* Request r arrives: the atomic increment, whatever the method.
middlewareMetricsInc(p, r) ==
    /\ r.kind = "file"
    /\ r.kind \in Routes(program)
    /\ fileserverHits' = Add(fileserverHits, 1)
    /\ Goto(p, r, "serve")
    /\ UNCHANGED <<program, env, platform, users, chirps>>

\* next.ServeHTTP: the file server answers from the file system.
fileServer(p) ==
    /\ req[p].pc = "serve"
    /\ \E found \in BOOLEAN :
         Respond(p, req[p], IF found THEN 200 ELSE 404, NoResp)
    /\ UNCHANGED <<program, env, platform, fileserverHits, users, chirps>>

metricsHandler(p, r) ==
    /\ r.kind = "metrics"
    /\ r.kind \in Routes(program)
    /\ IF r.method # "GET"
       THEN Respond(p, r, 405, NoResp)
       ELSE Respond(p, r, 200, [NoResp EXCEPT !.hits = Load(fileserverHits)])
    /\ UNCHANGED <<program, env, platform, fileserverHits, users, chirps>>

healthzHandler(p, r) ==
    /\ r.kind = "healthz"
    /\ r.kind \in Routes(program)
    /\ Respond(p, r, IF r.method # "GET" THEN 405 ELSE 200, NoResp)
    /\ UNCHANGED <<program, env, platform, fileserverHits, users, chirps>>

----------------------------------------------------------------------------
\* Users

\* The users table lets no two rows share an email.
EmailTaken(us, email) == \E u \in us : u.email = email

\* uuid.New(): an identifier of its own for each request, here its slot.
NewUUID(p) == p

\* A plausible slip: the error of CreateUser ignored.
CreateUserStatusIgnoreErr(ok) == 201

\* The status createUserHandler answers after CreateUser.
CreateUserStatus(ok) == IF ok THEN 201 ELSE 500

\* Request r arrives: method, body, JSON.
createUserHandler(p, r) ==
    /\ r.kind = "user"
    /\ r.kind \in Routes(program)
    /\ IF r.method # "POST" THEN Respond(p, r, 405, NoResp)
       ELSE IF r.payload = "unreadable"
            THEN Respond(p, r, 500, ErrorResp("Failed to read request"))
       ELSE IF r.payload = "malformed"
            THEN Respond(p, r, 400, ErrorResp("Invalid JSON"))
       ELSE Goto(p, r, "CreateUser")
    /\ UNCHANGED <<program, env, platform, fileserverHits, users, chirps>>

\* cfg.db.CreateUser and the response.  The statement fails on a taken email
\* and may fail for any other reason (dbUp: the database answers).
CreateUser(p) ==
    /\ req[p].pc = "CreateUser"
    /\ \E dbUp \in BOOLEAN :
         LET row == [id |-> NewUUID(p), email |-> req[p].email]
             ok == dbUp /\ ~EmailTaken(users, req[p].email)
         IN /\ users' = IF ok THEN users \cup {row} ELSE users
            /\ Respond(p, req[p], CreateUserStatus(ok),
                       IF CreateUserStatus(ok) = 201
                       THEN [NoResp EXCEPT !.id = row.id, !.email = row.email]
                       ELSE ErrorResp("Failed to create user"))
    /\ UNCHANGED <<program, env, platform, fileserverHits, chirps>>

----------------------------------------------------------------------------
\* Chirps

\* The row CreateChirp adds to the chirps table.
InsertChirp(cs, row) == cs \cup {row}

\* A plausible slip: the length checked after cleaning.
RejectsAfterCleaning(body) == TooLong(Clean(body))

\* The request is turned down as too long.
Rejects(body) == TooLong(body)

\* database.CreateChirpParams
ChirpParams(id, cleaned, user_id) ==
    [id |-> id, body |-> cleaned, user_id |-> user_id]

\* A plausible slip: the error of CreateChirp ignored.
CreateChirpStatusIgnoreErr(ok) == 201

\* The status createChirpHandler answers after CreateChirp.
CreateChirpStatus(ok) == IF ok THEN 201 ELSE 500

\* Request r arrives: method, body, JSON, length.
createChirpHandler(p, r) ==
    /\ r.kind = "chirp"
    /\ r.kind \in Routes(program)
    /\ IF r.method # "POST" THEN Respond(p, r, 405, NoResp)
       ELSE IF r.payload = "unreadable"
            THEN Respond(p, r, 500, ErrorResp("Failed to read request"))
       ELSE IF r.payload = "malformed"
            THEN Respond(p, r, 400, ErrorResp("Invalid JSON"))
       ELSE IF Rejects(r.body)
            THEN Respond(p, r, 400, ErrorResp("Chirp is too long"))
       ELSE Goto(p, r, "CreateChirp")
    /\ UNCHANGED <<program, env, platform, fileserverHits, users, chirps>>

\* The cleaning, cfg.db.CreateChirp and the response.
CreateChirp(p) ==
    /\ req[p].pc = "CreateChirp"
    /\ \E ok \in BOOLEAN :
         LET row == ChirpParams(NewUUID(p), Clean(req[p].body), req[p].user_id)
         IN /\ chirps' = IF ok THEN InsertChirp(chirps, row) ELSE chirps
            /\ Respond(p, req[p], CreateChirpStatus(ok),
                       IF CreateChirpStatus(ok) = 201
                       THEN [NoResp EXCEPT !.id = row.id, !.body = row.body,
                                           !.user_id = row.user_id]
                       ELSE ErrorResp("Failed to create chirp"))
    /\ UNCHANGED <<program, env, platform, fileserverHits, users>>

----------------------------------------------------------------------------
\* Reset

\* A plausible slip: a delete that spares a row.
DeleteAllButOne(us) == IF us = {} THEN {} ELSE {CHOOSE u \in us : TRUE}

\* DELETE FROM users
DeleteAllUsers(us) == {}

\* Request r arrives: method, the dev gate, the counter's reset.
resetHandler(p, r) ==
    /\ program = UsersSql
    /\ r.kind = "reset"
    /\ IF r.method # "POST"
       THEN Respond(p, r, 405, NoResp) /\ UNCHANGED fileserverHits
       ELSE IF ~IsDev(platform)
       THEN /\ Respond(p, r, 403,
                       ErrorResp("Reset endpoint only available in dev mode"))
            /\ UNCHANGED fileserverHits
       ELSE /\ fileserverHits' = Store(fileserverHits, 0)
            /\ Goto(p, r, "DeleteAllUsers")
    /\ UNCHANGED <<program, env, platform, users, chirps>>

\* main.go's resetHandler: method, the counter's reset, 200.  No gate.
main_resetHandler(p, r) ==
    /\ program = MainGo
    /\ r.kind = "reset"
    /\ IF r.method # "POST"
       THEN Respond(p, r, 405, NoResp) /\ UNCHANGED fileserverHits
       ELSE /\ fileserverHits' = Store(fileserverHits, 0)
            /\ Respond(p, r, 200, NoResp)
    /\ UNCHANGED <<program, env, platform, users, chirps>>

\* cfg.db.DeleteAllUsers and the response.
resetDelete(p) ==
    /\ req[p].pc = "DeleteAllUsers"
    /\ \E ok \in BOOLEAN :
         /\ users' = IF ok THEN DeleteAllUsers(users) ELSE users
         /\ IF ok THEN Respond(p, req[p], 200, NoResp)
            ELSE Respond(p, req[p], 500, ErrorResp("Failed to delete users"))
    /\ UNCHANGED <<program, env, platform, fileserverHits, chirps>>

----------------------------------------------------------------------------
\* The server: requests arrive at any time and run interleaved.  A request
\* takes the next slot as its handler starts; the handler runs up to its
\* first statement on shared state, or to its response if it has none.
\* /api/validate_chirp has no route in main, so validateChirpHandler never runs.

Next ==
    \/ \E p \in Slots : Free(p) /\ \E r \in SharingRequests : middlewareMetricsInc(p, r)
    \/ \E p \in Slots : Free(p) /\ \E r \in SharingRequests : metricsHandler(p, r)
    \/ \E p \in Slots : Free(p) /\ \E r \in SharingRequests : healthzHandler(p, r)
    \/ \E p \in Slots : Free(p) /\ \E r \in SharingRequests : createUserHandler(p, r)
    \/ \E p \in Slots : Free(p) /\ \E r \in SharingRequests : createChirpHandler(p, r)
    \/ \E p \in Slots : Free(p) /\ \E r \in SharingRequests : resetHandler(p, r)
    \/ \E p \in Slots : Free(p) /\ \E r \in SharingRequests : main_resetHandler(p, r)
    \/ \E p \in Slots : fileServer(p)
    \/ \E p \in Slots : CreateUser(p)
    \/ \E p \in Slots : CreateChirp(p)
    \/ \E p \in Slots : resetDelete(p)

Spec == Init /\ [][Next]_vars

\* A request may be taken in slot p, the server being asked one at a time.
FreeSeq(p) == Free(p) /\ InFlight = {}

\* The server asked one request at a time, of every kind.
NextSeq ==
    \/ \E p \in Slots : FreeSeq(p) /\ \E r \in SeqRequests : middlewareMetricsInc(p, r)
    \/ \E p \in Slots : FreeSeq(p) /\ \E r \in SeqRequests : metricsHandler(p, r)
    \/ \E p \in Slots : FreeSeq(p) /\ \E r \in SeqRequests : healthzHandler(p, r)
    \/ \E p \in Slots : FreeSeq(p) /\ \E r \in SeqRequests : createUserHandler(p, r)
    \/ \E p \in Slots : FreeSeq(p) /\ \E r \in SeqRequests : createChirpHandler(p, r)
    \/ \E p \in Slots : FreeSeq(p) /\ \E r \in SeqRequests : resetHandler(p, r)
    \/ \E p \in Slots : FreeSeq(p) /\ \E r \in SeqRequests : main_resetHandler(p, r)
    \/ \E p \in Slots : fileServer(p)
    \/ \E p \in Slots : CreateUser(p)
    \/ \E p \in Slots : CreateChirp(p)
    \/ \E p \in Slots : resetDelete(p)

SpecSeq == Init /\ [][NextSeq]_vars

----------------------------------------------------------------------------
\* One chirp request, its body any concatenation of up to MaxPieces pieces.

\* "Kerfuffle" spelt with the Kelvin sign: 9 characters, 11 bytes.
KelvinErfuffle == <<KELVIN,"e","r","f","u","f","f","l","e">>

Pieces ==
    { <<" ">>, kerfuffle, <<"S","h","a","r","b","e","r","t">>,
      <<"F","O","R","N","A","X">>, <<"f","o","r","n","a","x","!">>,
      KelvinErfuffle, <<"h","i">>, Pad(MaxChirpLen - Len(fornax) - 1) }

RECURSIVE BodiesOf(_)
BodiesOf(n) ==
    IF n = 0 THEN {<<>>}
    ELSE BodiesOf(n - 1) \cup {b \o x : b \in BodiesOf(n - 1), x \in Pieces}

Bodies == BodiesOf(MaxPieces)

ChirpBodyRequests == ChirpRequests(Bodies)

\* The one request of the chirp specification takes the first slot.
FreeFirst(p) == Free(p) /\ \A q \in Slots : req[q].pc = "idle"

NextChirp ==
    \/ \E p \in Slots :
         FreeFirst(p) /\ \E r \in ChirpBodyRequests : createChirpHandler(p, r)
    \/ \E p \in Slots : CreateChirp(p)

SpecChirp == Init /\ [][NextChirp]_vars

----------------------------------------------------------------------------
\* What cleaning is to give, told by the positions of the spaces.

SpacesOf(s) == {i \in 1..Len(s) : s[i] = " "}

\* The n-th smallest member of the set sp of positions.
Nth(sp, n) == CHOOSE i \in sp : Cardinality({j \in sp : j < i}) = n - 1

\* Token n lies between the (n-1)-th and the n-th space.
TokensOf(s) ==
    LET sp == SpacesOf(s)
        k == Cardinality(sp)
    IN [n \in 1..(k + 1) |->
           SubSeq(s, IF n = 1 THEN 1 ELSE Nth(sp, n - 1) + 1,
                     IF n = k + 1 THEN Len(s) ELSE Nth(sp, n) - 1)]

\* Character c is d in lower case.
FoldsTo(c, d) ==
    \/ c = d
    \/ \E k \in 1..Len(UpperCase) : UpperCase[k] = c /\ LowerCase[k] = d
    \/ c = KELVIN /\ d = "k"

Denylisted(tok) ==
    \E w \in {kerfuffle, sharbert, fornax} :
        Len(tok) = Len(w) /\ \A k \in 1..Len(w) : FoldsTo(tok[k], w[k])

\* out is in with each denylisted token masked and nothing else changed.
MaskedAs(in, out) ==
    LET ti == TokensOf(in)
        to == TokensOf(out)
    IN /\ Len(to) = Len(ti)
       /\ \A n \in 1..Len(ti) :
            to[n] = IF Denylisted(ti[n]) THEN <<"*","*","*","*">> ELSE ti[n]

Done(p) == req[p].pc = "done"

ChirpsOf(p) == {c \in chirps : c.id = p}

\* A parsed chirp-creation request: POST, body read, JSON decoded.
ParsedChirp(p) ==
    req[p].kind = "chirp" /\ req[p].method = "POST" /\ req[p].payload = "ok"

----------------------------------------------------------------------------
\* C1: with no reset request, once every request has completed the hit
\* counter equals the number of static-file requests, whatever the
\* interleaving with metrics, healthz, user and chirp requests.
C1_HitsCountFileRequests ==
    ((\A p \in Slots : req[p].kind # "reset") /\ InFlight = {})
        => fileserverHits = Cardinality({p \in Slots : req[p].kind = "file"})

C1_Witness ==
    /\ InFlight = {}
    /\ \A p \in Slots : req[p].kind # "reset"
    /\ Cardinality({p \in Slots : req[p].kind = "file"}) >= 2
    /\ \E p \in Slots : req[p].kind = "user" /\ req[p].status = 201
    /\ fileserverHits >= 2

\* C2: when PLATFORM is not "dev" (unset included), a POST to reset is
\* answered 403 in one step that leaves the counter and the users as they were.
C2_ResetForbiddenOutsideDev ==
    [][\A p \in Slots :
         (/\ req[p].pc = "idle"
          /\ req'[p].kind = "reset"
          /\ req'[p].method = "POST"
          /\ env # "dev")
         => /\ req'[p].pc = "done"
            /\ req'[p].status = 403
            /\ fileserverHits' = fileserverHits
            /\ users' = users]_vars

\* The same of the server in sql/queries/users.sql alone, where it holds.
ResetForbiddenOutsideDevInUsersSql ==
    [][\A p \in Slots :
         (/\ program = UsersSql
          /\ req[p].pc = "idle"
          /\ req'[p].kind = "reset"
          /\ req'[p].method = "POST"
          /\ env # "dev")
         => /\ req'[p].pc = "done"
            /\ req'[p].status = 403
            /\ fileserverHits' = fileserverHits
            /\ users' = users]_vars

\* C3: a parsed chirp request whose body is longer than 140 bytes is answered
\* 400 "Chirp is too long" and stores no chirp, whatever cleaning would make
\* of the body.
C3_OverLongRejected ==
    \A p \in Slots :
        (ParsedChirp(p) /\ ByteLen(req[p].body) > 140)
        => /\ Done(p)
           /\ req[p].status = 400
           /\ req[p].resp.error = "Chirp is too long"
           /\ ChirpsOf(p) = {}

\* Here the body is 143 bytes and would be 138 with "kerfuffle" masked.
C3_Witness ==
    \E p \in Slots :
        /\ ParsedChirp(p)
        /\ req[p].body = kerfuffle \o <<" ">> \o Pad(MaxChirpLen - Len(fornax) - 1)
        /\ ByteLen(req[p].body) > 140
        /\ ByteLen(req[p].body) - Len(kerfuffle) + 4 <= 140
        /\ req[p].status = 400

\* C4: an accepted body of at most 140 bytes with no denylisted token is
\* stored and answered unchanged, empty tokens and letter case included.
C4_CleanIsIdentity ==
    \A p \in Slots :
        (/\ ParsedChirp(p)
         /\ req[p].status = 201
         /\ ByteLen(req[p].body) <= 140
         /\ LET ti == TokensOf(req[p].body)
            IN \A n \in 1..Len(ti) : ~Denylisted(ti[n]))
        => /\ req[p].resp.body = req[p].body
           /\ \E c \in chirps : c.id = req[p].resp.id /\ c.body = req[p].body

C4_Witness ==
    \E p \in Slots :
        /\ ParsedChirp(p)
        /\ req[p].status = 201
        /\ req[p].body = <<" ", " ">> \o <<"f","o","r","n","a","x","!">>
        /\ req[p].resp.body = req[p].body

\* C5: in an accepted body every token that is a denylisted word in some
\* letter case is answered and stored as "****", and every other token, one
\* that only contains a denylisted word included, stays as it is in its place.
C5_DenylistedTokensMasked ==
    \A p \in Slots :
        (ParsedChirp(p) /\ req[p].status = 201)
        => /\ MaskedAs(req[p].body, req[p].resp.body)
           /\ \E c \in chirps : c.id = req[p].resp.id /\ c.body = req[p].resp.body

C5_Witness ==
    \E p \in Slots :
        /\ ParsedChirp(p)
        /\ req[p].status = 201
        /\ req[p].body = <<"F","O","R","N","A","X">> \o <<" ">>
                         \o <<"f","o","r","n","a","x","!">>
        /\ req[p].resp.body = <<"*","*","*","*">> \o <<" ">>
                              \o <<"f","o","r","n","a","x","!">>

\* C6: no two stored users share an email, and a CreateUser for an email
\* some stored user has is answered 500 and stores nothing; so of two
\* requests for one email in flight together at most one succeeds.
C6_EmailsUnique ==
    /\ [](\A u, v \in users : u.email = v.email => u = v)
    /\ [][\A p \in Slots :
            (/\ req[p].pc = "CreateUser"
             /\ req'[p].pc = "done"
             /\ \E u \in users : u.email = req[p].email)
            => /\ req'[p].status = 500
               /\ users' = users]_vars

\* Two requests for one email: one answered 201, the other 500, one row.
C6_Witness ==
    \E p, q \in Slots :
        /\ p < q
        /\ req[p].kind = "user" /\ req[q].kind = "user"
        /\ req[p].email = req[q].email
        /\ req[p].status = 500
        /\ req[q].status = 201
        /\ Cardinality({u \in users : u.email = req[p].email}) = 1

\* C7: with requests served one at a time, right after a reset answered 200
\* the counter is zero and no user is stored.
C7_ResetClearsAll ==
    \A p \in Slots :
        (/\ req[p].kind = "reset"
         /\ req[p].status = 200
         /\ \A q \in Slots : q > p => req[q].pc = "idle")
        => fileserverHits = 0 /\ users = {}

\* A user was created and a file served before the reset.
C7_Witness ==
    \E p \in Slots :
        /\ req[p].kind = "reset" /\ req[p].status = 200
        /\ \A q \in Slots : q > p => req[q].pc = "idle"
        /\ \E q \in Slots : q < p /\ req[q].kind = "user" /\ req[q].status = 201
        /\ \E q \in Slots : q < p /\ req[q].kind = "file"
        /\ env = "dev"

\* C8: every stored chirp has a body of at most 140 bytes (so of at most
\* 140 characters), and one no longer than the body its request carried.
C8_StoredBodiesBounded ==
    \A c \in chirps :
        /\ ByteLen(c.body) <= 140
        /\ Len(c.body) <= 140
        /\ ByteLen(c.body) <= ByteLen(req[c.id].body)

\* A body of exactly 140 bytes, stored shorter with its word masked.
C8_Witness ==
    \E p \in Slots : \E c \in chirps :
        /\ c.id = p
        /\ ByteLen(req[p].body) = 140
        /\ ByteLen(c.body) < 140

\* C9 as it is stated: a completed chirp request was answered 405 (not
\* POST), 400 (malformed JSON), 400 (too long) or 500 (failed write) and
\* stored nothing, or else stored one chirp and was answered 201.
C9_FourFailuresOrStored ==
    \A p \in Slots :
        (Done(p) /\ req[p].kind = "chirp")
        => \/ /\ req[p].method # "POST"
              /\ req[p].status = 405
              /\ ChirpsOf(p) = {}
           \/ /\ req[p].method = "POST"
              /\ req[p].payload = "malformed"
              /\ req[p].status = 400
              /\ req[p].resp.error = "Invalid JSON"
              /\ ChirpsOf(p) = {}
           \/ /\ ParsedChirp(p)
              /\ ByteLen(req[p].body) > 140
              /\ req[p].status = 400
              /\ req[p].resp.error = "Chirp is too long"
              /\ ChirpsOf(p) = {}
           \/ /\ ParsedChirp(p)
              /\ ByteLen(req[p].body) <= 140
              /\ req[p].status = 500
              /\ req[p].resp.error = "Failed to create chirp"
              /\ ChirpsOf(p) = {}
           \/ /\ ParsedChirp(p)
              /\ ByteLen(req[p].body) <= 140
              /\ req[p].status = 201
              /\ \E c \in chirps :
                    /\ ChirpsOf(p) = {c}
                    /\ MaskedAs(req[p].body, c.body)
                    /\ c.user_id = req[p].user_id
                    /\ req[p].resp.id = c.id

\* C9, amended: the same, with a fifth failure: a body that cannot be read
\* is answered 500 and stores nothing.
C9_FiveFailuresOrStored ==
    \A p \in Slots :
        (Done(p) /\ req[p].kind = "chirp")
        => \/ /\ req[p].method # "POST"
              /\ req[p].status = 405
              /\ ChirpsOf(p) = {}
           \/ /\ req[p].method = "POST"
              /\ req[p].payload = "unreadable"
              /\ req[p].status = 500
              /\ req[p].resp.error = "Failed to read request"
              /\ ChirpsOf(p) = {}
           \/ /\ req[p].method = "POST"
              /\ req[p].payload = "malformed"
              /\ req[p].status = 400
              /\ req[p].resp.error = "Invalid JSON"
              /\ ChirpsOf(p) = {}
           \/ /\ ParsedChirp(p)
              /\ ByteLen(req[p].body) > 140
              /\ req[p].status = 400
              /\ req[p].resp.error = "Chirp is too long"
              /\ ChirpsOf(p) = {}
           \/ /\ ParsedChirp(p)
              /\ ByteLen(req[p].body) <= 140
              /\ req[p].status = 500
              /\ req[p].resp.error = "Failed to create chirp"
              /\ ChirpsOf(p) = {}
           \/ /\ ParsedChirp(p)
              /\ ByteLen(req[p].body) <= 140
              /\ req[p].status = 201
              /\ \E c \in chirps :
                    /\ ChirpsOf(p) = {c}
                    /\ MaskedAs(req[p].body, c.body)
                    /\ c.user_id = req[p].user_id
                    /\ req[p].resp.id = c.id

C9_Witness ==
    \E p \in Slots :
        /\ req[p].kind = "chirp"
        /\ req[p].payload = "unreadable"
        /\ req[p].status = 500
        /\ chirps = {}

\* C10: a dev-mode reset zeroes the counter as it starts, before the delete,
\* and the delete step leaves the counter alone, whether it succeeds or
\* fails; a failed delete is answered 500 and leaves the users.
C10_CounterZeroedBeforeDelete ==
    [][\A p \in Slots :
         /\ (req[p].pc = "idle" /\ req'[p].pc = "DeleteAllUsers")
            => (fileserverHits' = 0 /\ users' = users)
         /\ (req[p].pc = "DeleteAllUsers" /\ req'[p].pc = "done")
            => /\ fileserverHits' = fileserverHits
               /\ req'[p].status \in {200, 500}
               /\ req'[p].status = 500 => users' = users]_vars

\* A file request came between the zeroing and the response: the reset is
\* about to answer with the counter at 1 and a user stored.
C10_Witness ==
    \E p, q \in Slots :
        /\ req[p].kind = "reset" /\ req[p].pc = "DeleteAllUsers"
        /\ q > p /\ req[q].kind = "file"
        /\ fileserverHits = 1
        /\ users # {}

====
